---- MODULE Spec2Model ----
(***************************************************************************)
(* Model of pdf_compression.py: the quality-search loop of compress_pdf,   *)
(* the per-file task process_pdf, and the walker find_and_compress_pdfs    *)
(* that submits one task per stale file to a ThreadPoolExecutor and counts *)
(* the results as they complete.                                           *)
(*                                                                         *)
(* The external tool (ocrmypdf) is a black box: every invocation picks one *)
(* of its possible results (exit 0 with or without an output file, nonzero *)
(* exit with a standard error that can or cannot be decoded, command not   *)
(* found, another exception) nondeterministically.  Every access of a      *)
(* thread to the destination tree is a step of its own, so that the other  *)
(* threads see the tree between the tool's write and the code's stat,      *)
(* move or unlink.                                                         *)
(***************************************************************************)
EXTENDS Integers, Sequences, FiniteSets, TLC

(* ---------------------------------------------------------------- bounds *)

\* number of *.pdf files under the source root
NumFiles == 2
\* ThreadPoolExecutor(max_workers=...)
MaxWorkers == 1
\* the tool's output size ranges over TargetBytes .. TargetBytes + MaxOver
MaxOver == 2
\* find_and_compress_pdfs is called at most MaxRuns times on the same trees
MaxRuns == 2

(* ------------------------------------------------------ program constants *)

max_quality == 40
min_quality == 5
QualityStep == 5
\* target_size_mb * 1024 * 1024 with target_size_mb = 1.5
TargetBytes == (3 * 1024 * 1024) \div 2
\* best_quality_so_far before any attempt exceeded the target
NoQuality == -1
\* min_size_so_far = float('inf'), here a value no file size takes
Infinity == -1

\* last-modified time of every input file; inputs are never changed
InputMtime == 1
\* the clock value stamped on every file written during a run: the inputs
\* were there before the run started
WriteTime == InputMtime + 1

(* ------------------------------------------------------------------ paths *)

\* A file name <<s, d>> stands for  s + d * ".temp" + ".pdf":
\* <<1, 0>> is "1.pdf", <<1, 1>> is "1.temp.pdf".
Stems == 1 .. NumFiles
MaxNameDepth == 1
DestPaths == Stems \X (0 .. MaxNameDepth + 1)

\* Path.with_suffix('.temp.pdf'): the last suffix (".pdf") is replaced
with_suffix_temp(p) == <<p[1], p[2] + 1>>

\* dest_path / input_file.relative_to(source_path)
output_file_of(name) == name

\* output_path.with_suffix('.temp.pdf')
temp_output(output_path) == with_suffix_temp(output_path)

(* ------------------------------------------------------------- filesystem *)

NoFile == [exists |-> FALSE, mtime |-> 0, by |-> <<0, 0>>, size |-> 0]

\* a file written by invocation number n of task i
NewFile(i, n, size) ==
    [exists |-> TRUE, mtime |-> WriteTime, by |-> <<i, n>>, size |-> size]

\* a file that was there before the first run
OldFile(mtime) ==
    [exists |-> TRUE, mtime |-> mtime, by |-> <<0, 0>>, size |-> TargetBytes]

\* temp_output.unlink(missing_ok=True) guarded by temp_output.exists()
Unlink(f, p) == IF f[p].exists THEN [f EXCEPT ![p] = NoFile] ELSE f

\* shutil.move(src, dst): dst gets src's content, src disappears
Move(f, src, dst) == [f EXCEPT ![dst] = f[src], ![src] = NoFile]

(* ---------------------------------------------------------- external tool *)

Sizes == TargetBytes .. (TargetBytes + MaxOver)

\* What one subprocess.run(cmd, check=True, capture_output=True) can do:
\*   "ok"        exit 0, the output file is written with the given size
\*   "nofile"    exit 0, no output file is written
\*   "fail"      nonzero exit (CalledProcessError); partial: an empty
\*               output file is left; decodable: the captured standard
\*               error is valid UTF-8, so that e.stderr.decode() returns
\*   "notfound"  the command is not found (FileNotFoundError)
\*   "error"     subprocess.run raises another exception
RunResults ==
    [kind : {"ok"}, size : Sizes, partial : {FALSE}, decodable : {TRUE}]
      \cup [kind : {"fail"}, size : {0}, partial : BOOLEAN,
            decodable : BOOLEAN]
      \cup [kind : {"nofile", "notfound", "error"}, size : {0},
            partial : {FALSE}, decodable : {TRUE}]

\* the file system after the tool ran with output path p
RunTool(f, p, r, i, n) ==
    CASE r.kind = "ok" -> [f EXCEPT ![p] = NewFile(i, n, r.size)]
      [] r.kind = "fail" ->
            IF r.partial THEN [f EXCEPT ![p] = NewFile(i, n, 0)] ELSE f
      [] OTHER -> f

(* ------------------------------------------------------------------ state *)

VARIABLES
    source_exists,   \* source_path.exists()
    pdf_files,       \* list(source_path.glob('**/*.pdf')), as file names
    fs,              \* the destination tree: path -> file
    log,             \* the lines of LOG_FILE, in order
    run,             \* number of the current call of find_and_compress_pdfs
    wpc,             \* position of the walker
    idx,             \* index of input_file in "for input_file in pdf_files"
    futures,         \* the futures list: indices of the submitted files
    processed_count,
    failed_count,
    skipped_count,
    task,            \* per file: the locals of its process_pdf/compress_pdf
    obs              \* per file: what has been observed of its job (history)

vars == <<source_exists, pdf_files, fs, log, run, wpc, idx, futures,
          processed_count, failed_count, skipped_count, task, obs>>

Jobs == 1 .. NumFiles

output_file(i) == output_file_of(pdf_files[i])

NoCmd == [quality |-> NoQuality, out |-> <<0, 0>>]

\* the smallest oversize attempt seen by the loop, when there is none
NoLeast == [size |-> Infinity, quality |-> NoQuality]

\* A task that has not been submitted.  cmd is the command line given to
\* subprocess.run; least is a history field, not a local of the program.
\* pc is the position of the task:
\*   "queued"    submitted, no worker has started it
\*   "entered"   a worker has taken it from the queue, before line 129
\*   "loop"      line 26, before the next call of the tool
\*   "stat"      line 44, the tool has exited 0
\*   "sized"     line 46, current_size is known
\*   "except"    line 70, the tool has exited nonzero
\*   "fallback"  line 106, before the best-effort call of the tool
\*   "logging"   line 108, the best-effort call has exited 0
\*   "closing"   line 109 has put the line into the buffer of the log
\*               file (its size is in current_size), before the with
\*               block closes the file
\*   "returned"  process_pdf has returned, the future holds the result
\*   "collected" the walker has counted the result
IdleTask ==
    [pc |-> "idle", current_quality |-> 0, current_size |-> 0,
     best_quality_so_far |-> NoQuality, min_size_so_far |-> Infinity,
     final_success |-> FALSE, success |-> FALSE, cmd |-> NoCmd,
     result |-> FALSE, least |-> NoLeast]

\* nothing observed yet
NoObs ==
    [upToDate |-> FALSE,     \* the output was up to date when the run began
     prevCounted |-> "none", \* the counter of the job in the previous run
     prevWrote |-> FALSE,    \* the previous run wrote the output path
     calls |-> 0,            \* external invocations made for the job
     tried |-> << >>,        \* quality levels passed to the tool in the loop
     metAt |-> 0,            \* invocation whose size met the ceiling
     met |-> FALSE,          \* line 46 found a size within the ceiling
     anyFail |-> FALSE,      \* some loop attempt exited nonzero
     anyOver |-> FALSE,      \* line 46 found a size over the ceiling
     abort |-> "none",       \* what ended the loop with an exception:
                             \* "notfound", "error", "undecodable" (line
                             \* 66 raised), "nofile" (line 44 or 47 raised)
     fallback |-> "none",    \* result kind of the fallback invocation
     logged |-> 0,           \* log lines appended by the job
     outWrites |-> 0,        \* times the job wrote its final output path
     starts |-> 0,           \* times a worker took the task from the queue
     foundOutput |-> FALSE,  \* process_pdf found the output path existing
     seen |-> "none",        \* what the walker found at the output path:
                             \* "absent", "older" than the input, "fresh"
                             \* (not older), "gone" between the two reads
     counted |-> "none"]     \* the counter the walker incremented for it

(* ----------------------------------------------------------- compress_pdf *)

\* lines 29-41: the command of a loop attempt: --jpeg-quality is
\* current_quality and the output is the temporary file
LoopCmd(t, out) == [quality |-> t.current_quality, out |-> temp_output(out)]

\* the best-effort command with the output argument of the loop's command
FallbackCmd_ToTemp(t, out) ==
    [quality |-> t.best_quality_so_far, out |-> temp_output(out)]

\* lines 99-105: the command of the best-effort invocation:
\* --jpeg-quality is best_quality_so_far and the output is the output path
FallbackCmd(t, out) == [quality |-> t.best_quality_so_far, out |-> out]

\* line 46: current_size <= target_size_mb * 1024 * 1024
MeetsTarget(size) == size <= TargetBytes

\* line 58 with <= in place of <
IsSmaller_OrEqual(size, m) == m = Infinity \/ size <= m

\* line 58: current_size < min_size_so_far
IsSmaller(size, m) == m = Infinity \/ size < m

\* lines 58-60: remember the smallest oversize attempt
RecordBest(t, size) ==
    IF IsSmaller(size, t.min_size_so_far)
    THEN [t EXCEPT !.min_size_so_far = size,
                   !.best_quality_so_far = t.current_quality]
    ELSE t

\* lines 63 and 72: current_quality -= 5
NextQuality(q) == q - QualityStep

\* line 26: while current_quality >= min_quality
LoopContinues(t) == t.current_quality >= min_quality

\* return from process_pdf: the locals are gone, the future holds the result
Returned(b) == [IdleTask EXCEPT !.pc = "returned", !.result = b]

\* lines 47-49 after the move: the attempt met the ceiling; the flag set
\* here is success, the flag tested after the loop is final_success
OnTargetMet(t) == [t EXCEPT !.success = TRUE, !.pc = "after"]

\* lines 58-63: the attempt exceeded the ceiling
OnOversize(t, size) ==
    [RecordBest(t, size) EXCEPT !.current_quality = NextQuality(@),
                                !.current_size = 0, !.pc = "loop"]

\* lines 65-66: subprocess.CalledProcessError is caught; the message of
\* line 66 decodes the captured standard error, and when that raises
\* UnicodeDecodeError inside the handler the exception leaves compress_pdf
\* and process_pdf returns False (lines 137-139)
OnCalledProcessError(t, decodable) ==
    IF decodable THEN [t EXCEPT !.pc = "except"] ELSE Returned(FALSE)

\* lines 70-73: the handler after its message: the next level
OnFailedAttempt(t) ==
    [t EXCEPT !.current_quality = NextQuality(@), !.pc = "loop"]

\* FileNotFoundError handled as lines 65-73 handle CalledProcessError
OnFileNotFound_NextLevel(t) ==
    [t EXCEPT !.current_quality = NextQuality(@), !.pc = "loop"]

\* lines 74-76: FileNotFoundError
OnFileNotFound(t) == Returned(FALSE)

\* lines 77-79: any other exception
OnException(t) == Returned(FALSE)

\* lines 43 and 65-79: the locals when subprocess.run has ended with r
AfterRun(t, r) ==
    CASE r.kind \in {"ok", "nofile"} -> [t EXCEPT !.pc = "stat"]
      [] r.kind = "fail" -> OnCalledProcessError(t, r.decodable)
      [] r.kind = "notfound" -> OnFileNotFound(t)
      [] OTHER -> OnException(t)

\* line 44: temp_output.stat().st_size; stat raises FileNotFoundError when
\* no file is at the temporary path
AfterStat(t, tmpfile) ==
    IF tmpfile.exists
    THEN [t EXCEPT !.pc = "sized", !.current_size = tmpfile.size]
    ELSE OnFileNotFound(t)

\* lines 46-63: the locals after the branch on current_size; shutil.move
\* raises FileNotFoundError when no file is at the temporary path
AfterSized(t, tmpfile) ==
    IF MeetsTarget(t.current_size)
    THEN IF tmpfile.exists THEN OnTargetMet(t) ELSE OnFileNotFound(t)
    ELSE OnOversize(t, t.current_size)

\* lines 46-62: the destination tree after the branch on current_size:
\* the temporary file is moved to the output path or removed
FsAfterSized(f, out, t) ==
    LET tmp == temp_output(out)
    IN IF MeetsTarget(t.current_size)
       THEN IF f[tmp].exists THEN Move(f, tmp, out) ELSE f
       ELSE Unlink(f, tmp)

\* lines 70-71: the temporary file is removed after a nonzero exit
FsAfterFailed(f, out) == Unlink(f, temp_output(out))

\* the test of line 96 without its second conjunct
NeedsFallback_NoBestTest(t) == ~t.final_success

\* line 96: if not final_success and best_quality_so_far != -1
NeedsFallback(t) == ~t.final_success /\ t.best_quality_so_far # NoQuality

\* lines 96-105 and 117-121: the code after the loop, up to the next call of
\* the tool: the command of the best-effort invocation is built, or
\* compress_pdf returns
AfterLoop(t, out) ==
    IF NeedsFallback(t)
    THEN [t EXCEPT !.pc = "fallback", !.cmd = FallbackCmd(t, out)]
    ELSE IF ~t.final_success /\ t.best_quality_so_far = NoQuality
    THEN Returned(FALSE)
    ELSE Returned(t.final_success)

\* lines 26 and 49: the loop is left by break or when its condition fails
LoopEnded(t) == t.pc = "after" \/ (t.pc = "loop" /\ ~LoopContinues(t))

\* the locals at the next call of the tool or at the return: when the
\* loop has ended, the code after it runs
ThenAfterLoop(t, out) == IF LoopEnded(t) THEN AfterLoop(t, out) ELSE t

\* lines 108-109: one line of the log
LogLine(i, size) == [input |-> i, size |-> size, target |-> TargetBytes]

\* lines 106-107 without the handlers of lines 111-116: the log is written
\* whatever the invocation did
FallbackResult_Always(r) == TRUE

\* lines 106 and 111-116: the best-effort invocation returned without an
\* exception, so that the log is written next; otherwise compress_pdf
\* returns False (a standard error that cannot be decoded raises at line
\* 112 and process_pdf returns False as well)
FallbackResult(r) == r.kind \in {"ok", "nofile"}

\* lines 108-109 and 114-116: output_path.stat() for the log line raises
\* when no file is at the output path, and compress_pdf returns False;
\* otherwise the line with the size read is written into the buffer of the
\* log file
AfterFallbackStat(t, outfile) ==
    IF outfile.exists
    THEN [t EXCEPT !.pc = "closing", !.current_size = outfile.size]
    ELSE Returned(FALSE)

\* The smallest oversize attempt so far, the highest quality among equal
\* sizes: the history the loop's best_quality_so_far is compared with.
LeastOf(old, size, quality) ==
    IF \/ old.quality = NoQuality
       \/ size < old.size
       \/ size = old.size /\ quality > old.quality
    THEN [size |-> size, quality |-> quality]
    ELSE old

(* ------------------------------------------------- find_and_compress_pdfs *)

\* line 170 read as its comment has it ("newer than input")
UpToDate_Newer(out, in_mtime) == out.mtime > in_mtime

\* line 170, second operand:
\*   output_file.stat().st_mtime >= input_file.stat().st_mtime
UpToDate(out, in_mtime) == out.mtime >= in_mtime

\* tasks a worker thread is running
Active ==
    {i \in Jobs : task[i].pc \in {"loop", "stat", "sized", "except",
                                  "fallback", "logging", "closing",
                                  "entered"}}

\* the work queue of the executor is first in, first out
FirstQueued(i) ==
    \E k \in 1 .. Len(futures) :
        /\ futures[k] = i
        /\ \A j \in 1 .. (k - 1) : task[futures[j]].pc # "queued"

\* the observations at the start of a run: which outputs are there and not
\* older than their inputs
StartObs(f, last) ==
    [i \in Jobs |->
        [NoObs EXCEPT
           !.upToDate = f[output_file(i)].exists
                          /\ f[output_file(i)].mtime >= InputMtime,
           !.prevCounted = last[i].counted,
           !.prevWrote = last[i].outWrites > 0]]

\* what the walker finds at an output path that holds a file: a file not
\* older than the input, or an older one (history, not read by the program)
SeenAs(out) == IF out.mtime < InputMtime THEN "older" ELSE "fresh"

\* lines 164 and 176: the position of the walker after the iteration for
\* the file at index k: the next file, or the loop over the futures
AfterFile(k) == IF k >= Len(pdf_files) THEN "collect" ELSE "submit"

\* lines 145-164: the source root is checked, the files are listed and the
\* counters start at zero; with no file listed the for loop is over at once
CheckSource ==
    /\ wpc = "check"
    /\ wpc' = IF source_exists THEN AfterFile(0) ELSE "aborted"
    /\ idx' = 1
    /\ futures' = << >>
    /\ processed_count' = 0
    /\ failed_count' = 0
    /\ skipped_count' = 0
    /\ UNCHANGED <<source_exists, pdf_files, fs, log, run, task, obs>>

\* lines 164-170 and 174: the next file of the listing; output_file.exists()
\* is read: without an output the file is submitted, with one the walker
\* goes on to the second operand of line 170
Submit ==
    /\ wpc = "submit"
    /\ idx <= Len(pdf_files)
    /\ IF fs[output_file(idx)].exists
       THEN /\ wpc' = "stat"
            /\ UNCHANGED <<futures, task, idx, obs>>
       ELSE /\ futures' = Append(futures, idx)
            /\ task' = [task EXCEPT ![idx].pc = "queued"]
            /\ idx' = idx + 1
            /\ wpc' = AfterFile(idx)
            /\ obs' = [obs EXCEPT ![idx].seen = "absent"]
    /\ UNCHANGED <<source_exists, pdf_files, fs, log, run,
                   processed_count, failed_count, skipped_count>>

\* lines 170-174 without the continue of line 172: a skipped file is
\* submitted too
SkipOrSubmit_NoContinue ==
    /\ wpc = "stat"
    /\ IF ~fs[output_file(idx)].exists
       THEN /\ wpc' = "raised"
            /\ obs' = [obs EXCEPT ![idx].seen = "gone"]
            /\ UNCHANGED <<skipped_count, futures, task, idx>>
       ELSE /\ IF UpToDate(fs[output_file(idx)], InputMtime)
               THEN /\ skipped_count' = skipped_count + 1
                    /\ obs' = [obs EXCEPT
                          ![idx].counted = "skipped",
                          ![idx].seen = SeenAs(fs[output_file(idx)])]
               ELSE /\ obs' = [obs EXCEPT
                          ![idx].seen = SeenAs(fs[output_file(idx)])]
                    /\ UNCHANGED skipped_count
            /\ futures' = Append(futures, idx)
            /\ task' = [task EXCEPT ![idx].pc = "queued"]
            /\ idx' = idx + 1
            /\ wpc' = AfterFile(idx)
    /\ UNCHANGED <<source_exists, pdf_files, fs, log, run,
                   processed_count, failed_count>>

\* lines 170-174: output_file.stat() is read.  When the file has gone since
\* exists() was read, stat raises FileNotFoundError, which nothing in
\* find_and_compress_pdfs catches: the call ends without the summary (the
\* executor still runs the tasks it was given).  Otherwise the file is
\* skipped when the output is not older than the input, and submitted when
\* it is.
SkipOrSubmit ==
    /\ wpc = "stat"
    /\ IF ~fs[output_file(idx)].exists
       THEN /\ wpc' = "raised"
            /\ obs' = [obs EXCEPT ![idx].seen = "gone"]
            /\ UNCHANGED <<skipped_count, futures, task, idx>>
       ELSE /\ IF UpToDate(fs[output_file(idx)], InputMtime)
               THEN /\ skipped_count' = skipped_count + 1
                    /\ obs' = [obs EXCEPT
                          ![idx].counted = "skipped",
                          ![idx].seen = SeenAs(fs[output_file(idx)])]
                    /\ UNCHANGED <<futures, task>>
               ELSE /\ futures' = Append(futures, idx)
                    /\ task' = [task EXCEPT ![idx].pc = "queued"]
                    /\ obs' = [obs EXCEPT
                          ![idx].seen = SeenAs(fs[output_file(idx)])]
                    /\ UNCHANGED skipped_count
            /\ idx' = idx + 1
            /\ wpc' = AfterFile(idx)
    /\ UNCHANGED <<source_exists, pdf_files, fs, log, run,
                   processed_count, failed_count>>

\* The observations of a job the walker has counted: the counter is
\* recorded; the count and the list of the invocations are dropped with the
\* future (they are observed up to the moment the job is counted).
Counted(o, result) ==
    [o EXCEPT !.counted = IF result THEN "processed" ELSE "failed",
              !.calls = 0, !.tried = << >>, !.metAt = 0]

\* lines 179-182 without the else branch
TallyResult_NoElse(result, c) ==
    IF result THEN [c EXCEPT !.processed = @ + 1] ELSE c

\* lines 179-182: the result of a future is added to one of the two
\* counters
TallyResult(result, c) ==
    IF result THEN [c EXCEPT !.processed = @ + 1]
    ELSE [c EXCEPT !.failed = @ + 1]

\* lines 176-189: as_completed yields a finished future, its result is
\* counted
Collect(i) ==
    /\ wpc = "collect"
    /\ task[i].pc = "returned"
    /\ LET c == TallyResult(task[i].result,
                            [processed |-> processed_count,
                             failed |-> failed_count])
       IN /\ processed_count' = c.processed
          /\ failed_count' = c.failed
    /\ obs' = [obs EXCEPT ![i] = Counted(@, task[i].result)]
    /\ task' = [task EXCEPT ![i].pc = "collected"]
    /\ UNCHANGED <<source_exists, pdf_files, fs, log, run, wpc, idx,
                   futures, skipped_count>>

\* lines 176 and 191-195: every future has been yielded, the summary is
\* printed
Finish ==
    /\ wpc = "collect"
    /\ \A k \in 1 .. Len(futures) : task[futures[k]].pc = "collected"
    /\ wpc' = "done"
    /\ UNCHANGED <<source_exists, pdf_files, fs, log, run, idx, futures,
                   processed_count, failed_count, skipped_count, task, obs>>

\* find_and_compress_pdfs is called again on the same trees
Rerun ==
    /\ wpc = "done"
    /\ run < MaxRuns
    /\ run' = run + 1
    /\ wpc' = "check"
    /\ task' = [i \in Jobs |-> IdleTask]
    /\ obs' = StartObs(fs, obs)
    /\ UNCHANGED <<source_exists, pdf_files, fs, log, idx, futures,
                   processed_count, failed_count, skipped_count>>

(* ------------------------------------------------------------ process_pdf *)

\* an executor that starts every submitted task at once
WorkerFree_Unbounded == TRUE

\* line 161: ThreadPoolExecutor(max_workers=max_workers) runs a queued task
\* only on a worker thread that is not running another task
WorkerFree == Cardinality(Active) < MaxWorkers

\* process_pdf without the test of line 130
EnterTask_NoExistsTest(f, out, mkdir_ok) ==
    IF ~mkdir_ok THEN Returned(FALSE)
    ELSE [IdleTask EXCEPT !.pc = "loop", !.current_quality = max_quality]

\* lines 128-139 and 14-19: the task up to its first call of the tool:
\* mkdir may raise (the task returns False), an existing output path ends
\* the task with True, otherwise compress_pdf is entered and its locals
\* are initialised
EnterTask(f, out, mkdir_ok) ==
    IF ~mkdir_ok THEN Returned(FALSE)
    ELSE IF f[out].exists THEN Returned(TRUE)
    ELSE [IdleTask EXCEPT !.pc = "loop", !.current_quality = max_quality]

\* lines 161 and 174: a worker thread of the executor that is free takes
\* the first task of the queue; process_pdf has not read anything yet
TakeTask(i) ==
    /\ task[i].pc = "queued"
    /\ FirstQueued(i)
    /\ WorkerFree
    /\ task' = [task EXCEPT ![i].pc = "entered"]
    /\ obs' = [obs EXCEPT ![i].starts = @ + 1]
    /\ UNCHANGED <<source_exists, pdf_files, fs, log, run, wpc, idx, futures,
                   processed_count, failed_count, skipped_count>>

\* lines 124-139 and 14-19: process_pdf runs up to the first call of the
\* tool: mkdir, the read of output_path.exists(), the locals of
\* compress_pdf
ProcessPdf(i) ==
    /\ task[i].pc = "entered"
    /\ \E mkdir_ok \in BOOLEAN :
          /\ task' = [task EXCEPT ![i] =
                         EnterTask(fs, output_file(i), mkdir_ok)]
          /\ obs' = [obs EXCEPT
                ![i].foundOutput = mkdir_ok /\ fs[output_file(i)].exists]
    /\ UNCHANGED <<source_exists, pdf_files, fs, log, run, wpc, idx, futures,
                   processed_count, failed_count, skipped_count>>

\* lines 26-43 and 65-79: the loop condition holds, the command is built
\* and subprocess.run is called and ends: the tool has written what it
\* writes, and the task is at line 44 (exit 0), in the handler of line 65
\* (nonzero exit) or has returned False
Attempt(i) ==
    /\ task[i].pc = "loop"
    /\ LoopContinues(task[i])
    /\ \E r \in RunResults :
          LET out == output_file(i)
              t == [task[i] EXCEPT !.cmd = LoopCmd(task[i], out)]
              o == obs[i]
              n == o.calls + 1
              fs1 == RunTool(fs, t.cmd.out, r, i, n)
          IN /\ task' = [task EXCEPT ![i] = AfterRun(t, r)]
             /\ fs' = fs1
             /\ obs' = [obs EXCEPT ![i] =
                   [o EXCEPT
                      !.calls = n,
                      !.tried = Append(@, t.cmd.quality),
                      !.anyFail = @ \/ r.kind = "fail",
                      !.abort =
                         CASE r.kind \in {"notfound", "error"} -> r.kind
                           [] r.kind = "fail" /\ ~r.decodable -> "undecodable"
                           [] OTHER -> @,
                      !.outWrites = IF fs1[out] # fs[out] THEN @ + 1 ELSE @]]
    /\ UNCHANGED <<source_exists, pdf_files, log, run, wpc, idx, futures,
                   processed_count, failed_count, skipped_count>>

\* line 44: the size of the temporary file is read
StatTemp(i) ==
    /\ task[i].pc = "stat"
    /\ LET tmpfile == fs[temp_output(output_file(i))]
       IN /\ task' = [task EXCEPT ![i] = AfterStat(@, tmpfile)]
          /\ obs' = [obs EXCEPT ![i].abort =
                        IF tmpfile.exists THEN @ ELSE "nofile"]
    /\ UNCHANGED <<source_exists, pdf_files, fs, log, run, wpc, idx, futures,
                   processed_count, failed_count, skipped_count>>

\* lines 46-63: the branch on current_size: the temporary file is moved to
\* the output path and the loop is left, or the attempt is remembered, the
\* temporary file is removed and the quality is lowered; when the loop ends
\* here, the code after it (lines 96-105, 117-121) runs up to the next call
\* of the tool
Settle(i) ==
    /\ task[i].pc = "sized"
    /\ LET out == output_file(i)
           tmpfile == fs[temp_output(out)]
           size == task[i].current_size
           t1 == ThenAfterLoop(AfterSized(task[i], tmpfile), out)
           fs1 == FsAfterSized(fs, out, task[i])
       IN /\ task' = [task EXCEPT ![i] =
                 IF t1.pc = "returned" THEN t1
                 ELSE [t1 EXCEPT
                         !.current_size = 0,
                         !.least = IF MeetsTarget(size) THEN @
                                   ELSE LeastOf(@, size,
                                                  task[i].current_quality)]]
          /\ fs' = fs1
          /\ obs' = [obs EXCEPT
                ![i].metAt = IF MeetsTarget(size) THEN obs[i].calls ELSE @,
                ![i].met = @ \/ MeetsTarget(size),
                ![i].anyOver = @ \/ ~MeetsTarget(size),
                ![i].abort = IF MeetsTarget(size) /\ ~tmpfile.exists
                             THEN "nofile" ELSE @,
                ![i].outWrites = IF fs1[out] # fs[out] THEN @ + 1 ELSE @]
    /\ UNCHANGED <<source_exists, pdf_files, log, run, wpc, idx, futures,
                   processed_count, failed_count, skipped_count>>

\* lines 70-73: after a nonzero exit the temporary file is removed and the
\* quality is lowered; when the loop ends here, the code after it runs up
\* to the next call of the tool
Discard(i) ==
    /\ task[i].pc = "except"
    /\ LET out == output_file(i)
       IN /\ task' = [task EXCEPT ![i] =
                 ThenAfterLoop(OnFailedAttempt(@), out)]
          /\ fs' = FsAfterFailed(fs, out)
    /\ UNCHANGED <<source_exists, pdf_files, log, run, wpc, idx, futures,
                   processed_count, failed_count, skipped_count, obs>>

\* lines 106 and 111-116: the best-effort invocation is called and ends:
\* after exit 0 the task goes on to the log, otherwise it returns False
Fallback(i) ==
    /\ task[i].pc = "fallback"
    /\ \E r \in RunResults :
          LET t == task[i]
              o == obs[i]
              n == o.calls + 1
              out == output_file(i)
              fs1 == RunTool(fs, t.cmd.out, r, i, n)
          IN /\ fs' = fs1
             /\ task' = [task EXCEPT ![i] =
                   IF FallbackResult(r) THEN [t EXCEPT !.pc = "logging"]
                   ELSE Returned(FALSE)]
             /\ obs' = [obs EXCEPT ![i] =
                   [o EXCEPT
                      !.calls = n,
                      !.fallback = r.kind,
                      !.outWrites = IF fs1[out] # fs[out] THEN @ + 1 ELSE @]]
    /\ UNCHANGED <<source_exists, pdf_files, log, run, wpc, idx, futures,
                   processed_count, failed_count, skipped_count>>

\* lines 108-109 and 114-116: the log is opened and the size of the output
\* is read for the line: without a file at the output path stat raises and
\* compress_pdf returns False; with one the line is written into the
\* buffer of the log file
LogBestEffort(i) ==
    /\ task[i].pc = "logging"
    /\ task' = [task EXCEPT ![i] =
                   AfterFallbackStat(@, fs[output_file(i)])]
    /\ UNCHANGED <<source_exists, pdf_files, fs, log, run, wpc, idx, futures,
                   processed_count, failed_count, skipped_count, obs>>

\* lines 108-110: the with block closes the log file, which appends the
\* buffered line to failures.log, and compress_pdf returns True
CloseLog(i) ==
    /\ task[i].pc = "closing"
    /\ log' = Append(log, LogLine(i, task[i].current_size))
    /\ task' = [task EXCEPT ![i] = Returned(TRUE)]
    /\ obs' = [obs EXCEPT ![i].logged = @ + 1]
    /\ UNCHANGED <<source_exists, pdf_files, fs, run, wpc, idx, futures,
                   processed_count, failed_count, skipped_count>>

(* ---------------------------------------------------------- specification *)

\* an output that is there before the first run is older than its input
\* or as old as its input
OldMtimes == (InputMtime - 1) .. InputMtime

Init ==
    /\ source_exists \in BOOLEAN
    /\ pdf_files = [i \in Jobs |-> <<i, 0>>]
    /\ fs \in [DestPaths -> {NoFile} \cup {OldFile(m) : m \in OldMtimes}]
    /\ \A p \in DestPaths : p[2] # 0 => fs[p] = NoFile
    /\ log = << >>
    /\ run = 1
    /\ wpc = "check"
    /\ idx = 1
    /\ futures = << >>
    /\ processed_count = 0
    /\ failed_count = 0
    /\ skipped_count = 0
    /\ task = [i \in Jobs |-> IdleTask]
    /\ obs = StartObs(fs, [i \in Jobs |-> NoObs])

\* one call of find_and_compress_pdfs
Next ==
    \/ CheckSource
    \/ Submit
    \/ SkipOrSubmit
    \/ \E i \in Jobs : Collect(i)
    \/ Finish
    \/ \E i \in Jobs : TakeTask(i)
    \/ \E i \in Jobs : ProcessPdf(i)
    \/ \E i \in Jobs : Attempt(i)
    \/ \E i \in Jobs : StatTemp(i)
    \/ \E i \in Jobs : Settle(i)
    \/ \E i \in Jobs : Discard(i)
    \/ \E i \in Jobs : Fallback(i)
    \/ \E i \in Jobs : LogBestEffort(i)
    \/ \E i \in Jobs : CloseLog(i)

Spec == Init /\ [][Next]_vars

\* find_and_compress_pdfs called up to MaxRuns times on the same trees
NextAgain == Next \/ Rerun

RerunSpec == Init /\ [][NextAgain]_vars

\* The walker thread keeps running, the executor keeps handing queued tasks
\* to free workers and a thread that is not inside a call of the external
\* tool goes on to its next step. Nothing is assumed of the tool itself:
\* subprocess.run is called without a timeout (lines 43 and 106), so a task
\* may stay at Attempt or at Fallback for ever.
Fairness ==
    /\ WF_vars(CheckSource)
    /\ WF_vars(Submit)
    /\ WF_vars(SkipOrSubmit)
    /\ WF_vars(Finish)
    /\ \A i \in Jobs : WF_vars(Collect(i))
    /\ \A i \in Jobs : WF_vars(TakeTask(i))
    /\ \A i \in Jobs : WF_vars(ProcessPdf(i))
    /\ \A i \in Jobs : WF_vars(StatTemp(i))
    /\ \A i \in Jobs : WF_vars(Settle(i))
    /\ \A i \in Jobs : WF_vars(Discard(i))
    /\ \A i \in Jobs : WF_vars(LogBestEffort(i))
    /\ \A i \in Jobs : WF_vars(CloseLog(i))

FairSpec == Init /\ [][Next]_vars /\ Fairness

\* The names of a source directory that holds, next to "1.pdf", the files
\* "1.temp.pdf", "1.temp.temp.pdf", ...: names that end in ".pdf" as the
\* glob of line 152 asks, one per file
SourceNames == {<<1, d>> : d \in 0 .. MaxNameDepth}

\* the orders in which the glob can list NumFiles of them
NameLists ==
    {l \in [Jobs -> SourceNames] : \A i, j \in Jobs : l[i] = l[j] => i = j}

\* the paths find_and_compress_pdfs computes as output paths for a listing
OutputPaths(l) == {output_file_of(l[i]) : i \in Jobs}

\* a batch over such a directory: the source root exists, and an output
\* that is there before the run is older than its input or as old
InitNames ==
    /\ source_exists = TRUE
    /\ pdf_files \in NameLists
    /\ fs \in [DestPaths -> {NoFile} \cup {OldFile(m) : m \in OldMtimes}]
    /\ \A p \in DestPaths : p \notin OutputPaths(pdf_files) => fs[p] = NoFile
    /\ log = << >>
    /\ run = 1
    /\ wpc = "check"
    /\ idx = 1
    /\ futures = << >>
    /\ processed_count = 0
    /\ failed_count = 0
    /\ skipped_count = 0
    /\ task = [i \in Jobs |-> IdleTask]
    /\ obs = StartObs(fs, [i \in Jobs |-> NoObs])

NamesSpec == InitNames /\ [][Next]_vars

(* ----------------------------------------------------------------- claims *)

\* the job of file i has returned and the walker has not counted it yet
JobReturned(i) == task[i].pc = "returned"

\* C1: a job in which some attempt of the loop exits 0 with a size within
\* the ceiling makes compress_pdf return TRUE, and the walker never counts
\* it as failed.  (The statement of the claim; the code violates it.)
C1_MetImpliesSuccess ==
    \A i \in Jobs :
        /\ (JobReturned(i) /\ obs[i].met) => task[i].result = TRUE
        /\ obs[i].met => obs[i].counted # "failed"

\* C2: when attempts exceeded the ceiling and a later attempt met it, that
\* attempt is the last external invocation of the job, the output path is
\* written once, and the output is that attempt's file, within the ceiling.
\* (The statement of the claim; the code violates it.)
C2_FirstMeetingLevelWins ==
    \A i \in Jobs :
        (obs[i].anyOver /\ obs[i].metAt > 0) =>
            /\ obs[i].calls = obs[i].metAt
            /\ obs[i].outWrites = 1
            /\ fs[output_file(i)].exists
            /\ fs[output_file(i)].by = <<i, obs[i].metAt>>
            /\ fs[output_file(i)].size <= TargetBytes

\* C3: when the first attempt exits 0 within the ceiling, the job makes
\* exactly one external invocation: the loop is left without another
\* attempt, and the output file is the file that attempt produced.
C3_FirstAttemptOnly ==
    \A i \in Jobs :
        obs[i].metAt = 1 =>
            /\ obs[i].calls = 1
            /\ JobReturned(i)
            /\ obs[i].fallback = "none"
            /\ fs[output_file(i)].exists
            /\ fs[output_file(i)].by = <<i, 1>>
            /\ fs[output_file(i)].size <= TargetBytes
            /\ ~fs[temp_output(output_file(i))].exists

\* C3 witness: a job has returned after a first attempt within the ceiling
C3_Witness ==
    \E i \in Jobs :
        /\ JobReturned(i)
        /\ obs[i].metAt = 1
        /\ obs[i].tried = <<max_quality>>
        /\ fs[output_file(i)].by = <<i, 1>>

\* the quality levels of a loop that runs from max_quality = 40 down to
\* min_quality = 5 in steps of 5
QualityLevels == <<40, 35, 30, 25, 20, 15, 10, 5>>

\* the lines of the log written for file i
LogLinesOf(i) == {k \in 1 .. Len(log) : log[k].input = i}

\* every attempt of the loop of job i so far exited 0 and exceeded the
\* ceiling
AllOver(i) ==
    /\ obs[i].anyOver
    /\ ~obs[i].anyFail
    /\ ~obs[i].met
    /\ obs[i].abort = "none"

\* every attempt of the loop of job i so far exited nonzero, with a
\* standard error that can or cannot be decoded
AllFailed(i) ==
    /\ obs[i].anyFail
    /\ ~obs[i].anyOver
    /\ ~obs[i].met
    /\ obs[i].abort \in {"none", "undecodable"}

\* C4: when every attempt at every quality level exits 0 and exceeds the
\* ceiling, the loop is followed by exactly one more invocation, at the
\* quality of the smallest attempt, whose output argument is the output
\* path and not the temporary path; when that invocation exits 0 too,
\* exactly one log line is appended for the job and the job succeeds.
C4_BestEffort ==
    \A i \in Jobs :
        LET o == obs[i]
            t == task[i]
            out == output_file(i)
        IN /\ (AllOver(i) /\ t.pc = "fallback") =>
                 /\ o.tried = QualityLevels
                 /\ o.calls = Len(QualityLevels)
                 /\ t.cmd.quality = t.least.quality
                 /\ t.cmd.out = out
                 /\ t.cmd.out # temp_output(out)
                 /\ LogLinesOf(i) = {}
           /\ (AllOver(i) /\ JobReturned(i)) =>
                 /\ o.calls = Len(QualityLevels) + 1
                 /\ o.fallback # "none"
                 /\ ~fs[temp_output(out)].exists
           /\ (AllOver(i) /\ JobReturned(i) /\ o.fallback = "ok") =>
                 /\ Cardinality(LogLinesOf(i)) = 1
                 /\ o.logged = 1
                 /\ t.result = TRUE
                 /\ fs[out].exists
                 /\ fs[out].by = <<i, Len(QualityLevels) + 1>>
           /\ (AllOver(i) /\ o.fallback = "ok" /\ o.counted # "none") =>
                 o.counted = "processed"

\* C4 witness: a job whose eight attempts all exceeded the ceiling has
\* returned after a best-effort invocation that exited 0
C4_Witness ==
    \E i \in Jobs :
        /\ JobReturned(i)
        /\ AllOver(i)
        /\ obs[i].fallback = "ok"
        /\ obs[i].calls = 9
        /\ Cardinality(LogLinesOf(i)) = 1

\* C5: when every invocation of the job exits nonzero over the whole
\* quality range, there is no output file and no temporary file,
\* compress_pdf returns FALSE after all eight levels, no best-effort
\* invocation is made and no log line is appended.  (The statement of the
\* claim; the code violates it when the standard error of a failed
\* invocation cannot be decoded.)
C5_Exhausted ==
    \A i \in Jobs :
        LET o == obs[i]
            out == output_file(i)
        IN /\ AllFailed(i) =>
                 /\ ~fs[out].exists
                 /\ o.fallback = "none"
                 /\ o.logged = 0
                 /\ LogLinesOf(i) = {}
                 /\ task[i].pc \notin {"fallback", "logging", "closing"}
           /\ (AllFailed(i) /\ JobReturned(i)) =>
                 /\ o.tried = QualityLevels
                 /\ o.calls = Len(QualityLevels)
                 /\ task[i].result = FALSE
                 /\ ~fs[temp_output(out)].exists
           /\ (AllFailed(i) /\ o.counted # "none") => o.counted = "failed"

\* C6: the log has a line for a job only if the job took the best-effort
\* path: its loop ended without any level meeting the ceiling and with a
\* best quality recorded.  (The statement of the claim; the code violates
\* it.)
C6_LogOnlyBestEffort ==
    \A k \in 1 .. Len(log) :
        /\ ~obs[log[k].input].met
        /\ obs[log[k].input].anyOver

\* C7: on a second run with unchanged inputs every discovered file is
\* skipped, nothing is processed, nothing fails and no task is dispatched.
\* (The statement of the claim; it fails for files the first run left
\* without an output or with a stale one.)
C7_SecondRunAllSkipped ==
    (run >= 2 /\ wpc = "done") =>
        /\ skipped_count = Len(pdf_files)
        /\ processed_count = 0
        /\ failed_count = 0
        /\ futures = << >>

\* the files whose output was there and not older than the input when the
\* current run began
UpToDateAtStart == {i \in Jobs : obs[i].upToDate}

\* the files for which the walker of the current run found an output not
\* older than the input
FoundFresh == {i \in Jobs : obs[i].seen = "fresh"}

\* the files for which the walker of the current run found no output or
\* one older than the input
FoundStale == {i \in Jobs : obs[i].seen \in {"absent", "older"}}

\* C7 as amended: on a second run with unchanged inputs the walker skips
\* exactly the files whose output it finds present and not older than the
\* input: for such a file no task is dispatched and no external invocation
\* is made; a file whose output it finds absent or older than the input is
\* dispatched again and counted as processed or failed when the batch
\* completes.  A file whose output was there and not older than the input
\* when the run began is found so, unless its output path is the
\* temporary path of another file.
C7_SecondRunSkipsUpToDate ==
    (run >= 2 /\ wpc # "check") =>
        /\ \A i \in Jobs :
              /\ obs[i].counted = "skipped" <=> i \in FoundFresh
              /\ i \in FoundFresh =>
                    /\ task[i].pc = "idle"
                    /\ obs[i].calls = 0
                    /\ obs[i].starts = 0
                    /\ \A k \in 1 .. Len(futures) : futures[k] # i
              /\ i \in FoundStale =>
                    \E k \in 1 .. Len(futures) : futures[k] = i
              /\ (wpc = "done" /\ i \in FoundStale)
                    => obs[i].counted \in {"processed", "failed"}
              /\ (obs[i].upToDate /\ obs[i].seen \notin {"none", "fresh"})
                    => \E j \in Jobs :
                          /\ j # i
                          /\ temp_output(output_file(j)) = output_file(i)
        /\ wpc = "done" =>
              /\ \A i \in Jobs : obs[i].seen \in {"absent", "older", "fresh"}
              /\ skipped_count = Cardinality(FoundFresh)
              /\ processed_count + failed_count = Cardinality(FoundStale)

\* C7 witness: a second run has completed; it skipped a file the first
\* run had compressed and dispatched a file the first run had failed on
C7_Witness ==
    /\ run = 2
    /\ wpc = "done"
    /\ \E i \in Jobs :
          /\ obs[i].prevWrote
          /\ obs[i].prevCounted # "skipped"
          /\ obs[i].counted = "skipped"
    /\ \E j \in Jobs :
          /\ obs[j].prevCounted = "failed"
          /\ obs[j].counted \in {"processed", "failed"}

\* s is an initial segment of t
IsPrefix(s, t) ==
    /\ Len(s) <= Len(t)
    /\ \A k \in 1 .. Len(s) : s[k] = t[k]

\* C8: the quality levels passed to the tool in the loop of a job are
\* 40, 35, 30, 25, 20, 15, 10, 5 in that order, whether the attempts exit
\* nonzero or exceed the ceiling: the levels tried so far are an initial
\* segment of that list, the next attempt is at the next level of it, and
\* a loop of such attempts that ends without a level meeting the ceiling
\* has tried all eight.  (The statement of the claim; the code violates it
\* when the standard error of an attempt that exits nonzero cannot be
\* decoded.)
C8_QualityOrder ==
    \A i \in Jobs :
        LET o == obs[i]
            t == task[i]
        IN /\ IsPrefix(o.tried, QualityLevels)
           /\ t.pc = "loop" =>
                 /\ Len(o.tried) < Len(QualityLevels)
                 /\ t.current_quality = QualityLevels[Len(o.tried) + 1]
           /\ (t.pc \in {"fallback", "logging", "closing", "returned"}
                  /\ o.calls > 0
                  /\ ~o.met /\ o.abort \in {"none", "undecodable"})
                 => o.tried = QualityLevels

\* C9: when the command is not found during an attempt of the loop, the
\* job ends at once: no further attempt and no best-effort invocation,
\* compress_pdf returns FALSE, there is no output and no log line; the
\* walker counts the job as failed and the batch is not stopped: as long
\* as it is not complete some step of it can be taken.
C9_ToolUnavailable ==
    \A i \in Jobs :
        LET o == obs[i]
            out == output_file(i)
        IN o.abort = "notfound" =>
              /\ task[i].pc \in {"returned", "collected"}
              /\ task[i].result = FALSE
              /\ o.fallback = "none"
              /\ o.counted = "none" =>
                    (o.calls = Len(o.tried) /\ IsPrefix(o.tried, QualityLevels))
              /\ ~fs[out].exists
              /\ o.logged = 0
              /\ LogLinesOf(i) = {}
              /\ o.counted \in {"none", "failed"}
              /\ wpc \in {"submit", "stat", "collect", "done"}
              /\ wpc # "done" => ENABLED Next
              /\ wpc = "done" => \A j \in Jobs : obs[j].counted # "none"

\* C9 witness: the batch is complete; one job was ended by a missing
\* command and counted as failed, another file was processed
C9_Witness ==
    /\ wpc = "done"
    /\ \E i, j \in Jobs :
          /\ obs[i].abort = "notfound"
          /\ obs[i].counted = "failed"
          /\ obs[j].counted = "processed"
          /\ obs[j].anyOver

\* every submitted task has been counted
AllCollected == \A k \in 1 .. Len(futures) : task[futures[k]].pc = "collected"

\* C10: when the source root exists, nothing ends the batch before its
\* summary: the walker is never stopped by an exception, and at the summary
\* every submitted task has been run and counted and the three counters add
\* up to the number of files.  (The statement of the claim, as far as a
\* finite run can refute it; the code violates it for "1.pdf" and
\* "1.temp.pdf" in one directory.)
C10_BatchCompletes ==
    source_exists =>
        /\ wpc # "raised"
        /\ wpc = "done" =>
              /\ AllCollected
              /\ \A i \in Jobs : obs[i].counted # "none"
              /\ processed_count + failed_count + skipped_count
                    = Len(pdf_files)

\* C11: a job writes its output path at most once: it never moves the
\* temporary file onto the output path and later writes the output path
\* again with another invocation.  (The statement of the claim; the code
\* violates it.)
C11_OutputWrittenOnce ==
    \A i \in Jobs : obs[i].outWrites <= 1

\* the paths task i writes, moves or deletes: its output path and its
\* temporary path
PathsOf(i) == {output_file(i), temp_output(output_file(i))}

\* C12: whatever files are discovered, no path is written by more than one
\* task: a file at the output path or the temporary path of a task was
\* written by that task or was there before the batch, never by another
\* task.  (The statement of the claim; the code violates it for "1.pdf"
\* and "1.temp.pdf" in one directory.)
C12_PathsOwnedByOneTask ==
    \A i, j \in Jobs :
        i # j =>
            \A p \in PathsOf(j) : fs[p].exists => fs[p].by[1] # i

\* the tasks that were submitted and that no worker has started
Waiting == {i \in Jobs : task[i].pc = "queued"}

\* the tasks process_pdf has been started for
Started ==
    {i \in Jobs : task[i].pc \in {"loop", "stat", "sized", "except",
                                  "fallback", "logging", "closing",
                                  "entered", "returned",
                                  "collected"}}

\* at most max_workers tasks are active; a dispatched task is waiting, not
\* started, or has been started once; when the batch is done every
\* dispatched task has been started once
WorkersBounded ==
    /\ Cardinality(Active) <= MaxWorkers
    /\ \A i \in Jobs :
          /\ obs[i].starts <= 1
          /\ i \in Waiting =>
                /\ obs[i].starts = 0
                /\ obs[i].calls = 0
                /\ \E k \in 1 .. Len(futures) : futures[k] = i
          /\ i \in Started => obs[i].starts = 1
    /\ \A k \in 1 .. Len(futures) :
          futures[k] \in Waiting \cup Started
    /\ wpc = "done" =>
          \A k \in 1 .. Len(futures) : obs[futures[k]].starts = 1

\* every dispatched task has been started once and has returned
AllRunOnce ==
    \A k \in 1 .. Len(futures) :
       /\ futures[k] \in Started \ Active
       /\ obs[futures[k]].starts = 1

\* task i is at a call of the external tool (line 43 or line 106): the next
\* step it takes is the return of subprocess.run
AtToolCall(i) == task[i].pc \in {"loop", "fallback"}

\* every call of the external tool returns: no task stays inside one
ToolReturns == \A i \in Jobs : []<>(~AtToolCall(i))

\* C13, as stated: at every moment at most max_workers tasks are active
\* (started and not returned); the other dispatched tasks wait without
\* having been started; every dispatched task is eventually run, and it is
\* run exactly once: from some moment on every dispatched task has been
\* started once and has returned. A call of the tool that never returns
\* keeps its worker, and the tasks waiting for that worker are never run.
C13_BoundedWorkers ==
    /\ []WorkersBounded
    /\ <>[]AllRunOnce

\* C13, amended: at every moment at most max_workers tasks are active and
\* the other dispatched tasks wait without having been started; no task is
\* started twice; and provided every call of the external tool returns,
\* every dispatched task is eventually run, exactly once.
C13_BoundedWorkersWhenToolReturns ==
    /\ []WorkersBounded
    /\ ToolReturns => <>[]AllRunOnce

\* C13 witness: max_workers tasks are active and another dispatched task
\* waits
C13_Witness ==
    /\ Cardinality(Active) = MaxWorkers
    /\ \E i \in Active : obs[i].calls > 0
    /\ Waiting # {}

\* file i has been dispatched in the current run
Dispatched(i) == \E k \in 1 .. Len(futures) : futures[k] = i

\* C14: a file whose output was there and not older than the input when
\* the walker enumerated it is counted as skipped, no task is dispatched
\* and no external invocation is made for it, and its output stays the
\* file it was: no task of the batch overwrites, deletes or regenerates
\* it.  (The statement of the claim; the code violates it when the
\* temporary path of another task is that output path.)
C14_SkippedUntouched ==
    \A i \in Jobs :
        obs[i].counted = "skipped" =>
            /\ task[i].pc = "idle"
            /\ ~Dispatched(i)
            /\ obs[i].calls = 0
            /\ obs[i].starts = 0
            /\ fs[output_file(i)].exists
            /\ fs[output_file(i)].by = <<0, 0>>
            /\ fs[output_file(i)].mtime >= InputMtime

\* the three counters of the summary
Counters == <<processed_count, failed_count, skipped_count>>

\* the files the walker has counted in counter c
CountedAs(c) == {i \in Jobs : obs[i].counted = c}

\* a step of a worker thread: a step of process_pdf or compress_pdf
WorkerStep ==
    \E i \in Jobs :
        \/ TakeTask(i) \/ ProcessPdf(i) \/ Attempt(i) \/ StatTemp(i)
        \/ Settle(i) \/ Discard(i) \/ Fallback(i) \/ LogBestEffort(i)
        \/ CloseLog(i)

\* a step of the walker that counts a skip or a completed future
WalkerCount == SkipOrSubmit \/ \E i \in Jobs : Collect(i)

\* C15: no step of a task changes the counters; a counter changes only in
\* a step of the walker, by one, for one skip or one completed task; and
\* no increment is lost: every counter is the number of files counted in
\* it.
C15_CountersByWalkerOnly ==
    /\ [](/\ processed_count = Cardinality(CountedAs("processed"))
          /\ failed_count = Cardinality(CountedAs("failed"))
          /\ skipped_count = Cardinality(CountedAs("skipped")))
    /\ [][/\ WorkerStep => Counters' = Counters
          /\ Counters' # Counters =>
                /\ WalkerCount
                /\ ~WorkerStep
                /\ processed_count' + failed_count' + skipped_count'
                      = processed_count + failed_count + skipped_count + 1
                /\ processed_count' >= processed_count
                /\ failed_count' >= failed_count
                /\ skipped_count' >= skipped_count]_vars

\* C15 witness: a task is in the middle of its loop while the walker has
\* already counted a skip or a completion
C15_Witness ==
    /\ \E i \in Active : obs[i].calls > 0
    /\ processed_count + failed_count + skipped_count > 0
    /\ failed_count > 0

\* C16: a dispatched task that finds its output path existing (an output
\* older than its input is dispatched, not skipped) makes no external
\* invocation, leaves the output file and the log as they are, and returns
\* TRUE, so the walker counts the file as processed.
C16_ExistingOutputKept ==
    /\ [](\A i \in Jobs :
            obs[i].foundOutput =>
                /\ task[i].pc \in {"returned", "collected"}
                /\ task[i].result = TRUE
                /\ obs[i].calls = 0
                /\ obs[i].tried = << >>
                /\ obs[i].fallback = "none"
                /\ obs[i].outWrites = 0
                /\ obs[i].logged = 0
                /\ LogLinesOf(i) = {}
                /\ fs[output_file(i)].exists
                /\ fs[output_file(i)].by = <<0, 0>>
                /\ obs[i].counted \in {"none", "processed"}
                /\ wpc = "done" => obs[i].counted = "processed")
    /\ [][\A i \in Jobs :
            (obs'[i].foundOutput /\ ~obs[i].foundOutput) =>
                /\ fs' = fs
                /\ log' = log]_vars

\* C16 witness: a file whose output was older than its input was
\* dispatched, its task found the output and the walker counted it as
\* processed
C16_Witness ==
    \E i \in Jobs :
        /\ obs[i].foundOutput
        /\ ~obs[i].upToDate
        /\ Dispatched(i)
        /\ fs[output_file(i)].mtime < InputMtime
        /\ obs[i].counted = "processed"

\* C17: throughout the loop min_size_so_far is the smallest size among the
\* attempts so far that exited 0 over the ceiling and best_quality_so_far
\* is the quality of that attempt, the highest one among equal sizes, and
\* -1 while there is no such attempt; attempts that exit nonzero change
\* neither; the best-effort invocation is made at that quality.
C17_BestIsLeast ==
    \A i \in Jobs :
        LET t == task[i]
        IN /\ t.pc \in {"loop", "stat", "sized", "except", "fallback",
                      "logging", "closing"} =>
                 /\ t.min_size_so_far = t.least.size
                 /\ t.best_quality_so_far = t.least.quality
                 /\ ~obs[i].anyOver =>
                       /\ t.best_quality_so_far = NoQuality
                       /\ t.min_size_so_far = Infinity
                 /\ obs[i].anyOver =>
                       /\ t.best_quality_so_far \in
                             {obs[i].tried[k] : k \in 1 .. Len(obs[i].tried)}
                       /\ t.min_size_so_far > TargetBytes
           /\ t.pc = "fallback" =>
                 /\ t.least.quality # NoQuality
                 /\ t.cmd.quality = t.least.quality

\* C17 witness: after eight attempts, some exiting nonzero, the
\* best-effort invocation is about to be made at the quality of the
\* smallest attempt, which is neither the first nor the last one tried
C17_Witness ==
    \E i \in Jobs :
        /\ task[i].pc = "fallback"
        /\ obs[i].tried = QualityLevels
        /\ obs[i].anyFail
        /\ task[i].cmd.quality = 30
        /\ task[i].least.size = TargetBytes + 1

\* line 153: total_files = len(pdf_files)
total_files == Len(pdf_files)

\* C18: the three counters never add up to more than the number of files
\* found, and add up to it when the batch completes; every file is counted
\* in exactly one counter and exactly once: the sum is the number of files
\* counted so far, a file that has been counted is never counted again or
\* moved to another counter, and at completion no file is left uncounted.
C18_CountersAddUp ==
    /\ [](/\ processed_count + failed_count + skipped_count <= total_files
          /\ processed_count + failed_count + skipped_count
                = Cardinality({i \in Jobs : obs[i].counted # "none"})
          /\ wpc = "done" =>
                /\ processed_count + failed_count + skipped_count
                      = total_files
                /\ \A i \in Jobs :
                      obs[i].counted \in {"processed", "failed", "skipped"})
    /\ [][\A i \in Jobs :
            obs[i].counted # "none" => obs'[i].counted = obs[i].counted]_vars

\* C18 witness: the batch is complete with one file skipped and the other
\* one dispatched and counted
C18_Witness ==
    /\ wpc = "done"
    /\ skipped_count = 1
    /\ processed_count + failed_count = total_files - 1
    /\ \E i \in Jobs : obs[i].counted = "skipped"

\* the temporary path of job i
TempOf(i) == temp_output(output_file(i))

\* compress_pdf has returned for job i after attempts that ended with a
\* nonzero exit, a missing command, or exit 0 with a file within or over
\* the ceiling
ReturnedPlain(i) ==
    /\ JobReturned(i)
    /\ obs[i].calls > 0
    /\ obs[i].abort \notin {"error", "nofile"}
    /\ obs[i].fallback \notin {"error", "nofile"}

\* C19: whenever compress_pdf returns after such attempts, no file lies at
\* the temporary path of the job.  (The statement of the claim; the code
\* violates it when an attempt exits nonzero with a standard error that
\* cannot be decoded and leaves a file at the temporary path.)
C19_NoTempAfterReturn ==
    \A i \in Jobs : ReturnedPlain(i) => ~fs[TempOf(i)].exists

\* C20: when the loop has recorded a best quality and the best-effort
\* invocation exits nonzero or does not find the command, compress_pdf
\* returns FALSE at once: no log line is appended, no further invocation
\* is made, and the walker counts the job as failed, not as processed.
C20_FallbackFailure ==
    \A i \in Jobs :
        obs[i].fallback \in {"fail", "notfound"} =>
            /\ obs[i].anyOver
            /\ task[i].pc \in {"returned", "collected"}
            /\ task[i].result = FALSE
            /\ obs[i].logged = 0
            /\ LogLinesOf(i) = {}
            /\ obs[i].counted = "none" => obs[i].calls = Len(obs[i].tried) + 1
            /\ obs[i].counted \in {"none", "failed"}
            /\ wpc = "done" => obs[i].counted = "failed"

\* C20 witness: the batch is complete; the best-effort invocation of one
\* job exited nonzero, that of the other did not find the command, and
\* both jobs are counted as failed
C20_Witness ==
    /\ wpc = "done"
    /\ \E i, j \in Jobs :
          /\ obs[i].fallback = "fail"
          /\ obs[i].counted = "failed"
          /\ ~obs[i].met
          /\ obs[j].fallback = "notfound"
          /\ obs[j].counted = "failed"

====
